---- MODULE Spec2Model ----
(***************************************************************************)
(* Model of the lyrics generator: Song (song.py), Model (model.py) and     *)
(* SongGenerator (song_generator.py).                                      *)
(*                                                                         *)
(* A Python str is a sequence of tokens (words, separators, newlines), so  *)
(* that strip, replace, lower, join and string formatting are computed.    *)
(* A Python dict is a sequence of [k, v] entries with distinct keys, in    *)
(* insertion order.                                                        *)
(***************************************************************************)
EXTENDS Integers, Sequences, FiniteSets, TLC

\* ------------------------------------------------------------------ bounds
\* Total number of backend (LLM) invocations explored in one session.
MaxCalls == 2

\* ------------------------------------------------------------- str helpers
Str(tok) == <<tok>>

EmptyStr == <<>>

NL == "\n"

\* str.__contains__ : needle occurs as a contiguous run of hay
Contains(hay, needle) ==
    \E i \in 0..(Len(hay) - Len(needle)) :
        SubSeq(hay, i + 1, i + Len(needle)) = needle

\* str.replace(old, new): leftmost, non-overlapping occurrences
RECURSIVE Replace(_, _, _)
Replace(s, old, new) ==
    IF Len(s) < Len(old) \/ Len(old) = 0 THEN s
    ELSE IF SubSeq(s, 1, Len(old)) = old
         THEN new \o Replace(SubSeq(s, Len(old) + 1, Len(s)), old, new)
         ELSE <<Head(s)>> \o Replace(Tail(s), old, new)

Whitespace == {" ", NL}

RECURSIVE LStrip(_, _)
LStrip(s, chars) ==
    IF s # <<>> /\ Head(s) \in chars THEN LStrip(Tail(s), chars) ELSE s

RECURSIVE RStrip(_, _)
RStrip(s, chars) ==
    IF s # <<>> /\ s[Len(s)] \in chars
    THEN RStrip(SubSeq(s, 1, Len(s) - 1), chars) ELSE s

\* str.strip() / str.strip("@")
Strip(s, chars) == RStrip(LStrip(s, chars), chars)

\* str.lower(), token by token
LowerTok(t) ==
    CASE t = "A" -> "a"
      [] t = "B" -> "b"
      [] t = "C" -> "c"
      [] t = "Failed" -> "failed"
      [] t = "LLM" -> "llm"
      [] t = "JSON" -> "json"
      [] OTHER -> t

Lower(s) == [i \in 1..Len(s) |-> LowerTok(s[i])]

\* sep.join(parts)
RECURSIVE Join(_, _)
Join(sep, parts) ==
    IF parts = <<>> THEN <<>>
    ELSE IF Len(parts) = 1 THEN parts[1]
    ELSE parts[1] \o sep \o Join(sep, Tail(parts))

\* ------------------------------------------------------------ dict helpers
EmptyDict == <<>>

DictKeys(d) == {d[i].k : i \in 1..Len(d)}

DictHas(d, key) == key \in DictKeys(d)

DictGet(d, key) == d[CHOOSE i \in 1..Len(d) : d[i].k = key].v

\* dict.values(), in insertion order
DictValues(d) == [i \in 1..Len(d) |-> d[i].v]

\* d[key] = value
DictSet(d, key, value) ==
    IF DictHas(d, key)
    THEN [i \in 1..Len(d) |-> IF d[i].k = key THEN [k |-> key, v |-> value] ELSE d[i]]
    ELSE Append(d, [k |-> key, v |-> value])

\* dict.get(key, default)
DictGetOr(d, key, default) == IF DictHas(d, key) THEN DictGet(d, key) ELSE default

\* ------------------------------------------------------- program constants
\* count argument of generate_song_names at its only call site
BatchSize == 5

\* history placeholder used by generate_song_names when the hint is empty
DefaultHistory == Str("Neon")

\* the value of the "error" field built by invoke_llm on a parse failure
ErrorText ==
    <<"Failed", " ", "to", " ", "parse", " ", "LLM", " ", "response", " ", "as", " ", "JSON">>

ErrorSentinel == <<[k |-> Str("error"), v |-> ErrorText]>>

\* keys read by set_random_song_theme, in the order they are read
ThemeKeys == <<Str("description"), Str("narrative1"), Str("narrative2"), Str("mood")>>

\* ------------------------------------------------- configuration (inputs)
\* song_structure.yaml: label lines followed by [@section] placeholder lines
PopSong ==
    <<"[", "Verse 1", "]", NL, "[", "@", "verse1", "]", NL, NL,
      "[", "Chorus", "]", NL, "[", "@", "chorus", "]">>

\* the key Song.__init__ reads by default, which SongGenerator never overrides
DefaultStructure == PopSong

\* section keys referenced by the placeholders of a structure
Placeholders(structure) ==
    {Str(structure[i]) : i \in {j \in 3..(Len(structure) - 1) :
        structure[j - 2] = "[" /\ structure[j - 1] = "@" /\ structure[j + 1] = "]"}}

\* ------------------------------------------------------- backend responses
\* A response of the generation backend: it raises, or it returns a text
\* that is a JSON object (obj), a JSON array of strings (obj holds its
\* items) or is not parseable.
RaiseResponse == [kind |-> "raise", parses |-> FALSE, json |-> "none", obj |-> EmptyDict]

GarbageResponse == [kind |-> "text", parses |-> FALSE, json |-> "none", obj |-> EmptyDict]

JsonResponse(obj) == [kind |-> "text", parses |-> TRUE, json |-> "object", obj |-> obj]

JsonArrayResponse(items) == [kind |-> "text", parses |-> TRUE, json |-> "array", obj |-> items]

Entry(key, value) == [k |-> Str(key), v |-> value]

NamesFull ==
    <<Entry("song1", <<"A">>), Entry("song2", <<"B">>), Entry("song3", <<"A", " ", "B">>),
      Entry("song4", <<"a", "_", "b">>), Entry("song5", <<"C">>)>>

NamesFresh == <<Entry("song1", <<"D">>)>>

NameResponses ==
    {JsonResponse(NamesFull), JsonResponse(NamesFresh), JsonResponse(EmptyDict),
     GarbageResponse, RaiseResponse}

ThemeFull ==
    <<Entry("description", <<"desc">>), Entry("narrative1", <<"U+201C", "one", "U+201D">>),
      Entry("narrative2", <<"two">>), Entry("mood", <<"mood">>)>>

ThemePartial == <<Entry("description", <<"desc">>), Entry("mood", <<"mood">>)>>

ThemeResponses ==
    {JsonResponse(ThemeFull), JsonResponse(ThemePartial), GarbageResponse, RaiseResponse}

LyricsFull ==
    <<Entry("verse1", <<" ", "la", NL>>), Entry("chorus", <<"it", "U+2019", "s", NL>>)>>

LyricsPartial == <<Entry("chorus", <<"na">>)>>

LyricsResponses ==
    {JsonResponse(LyricsFull), JsonResponse(LyricsPartial), GarbageResponse, RaiseResponse}

\* ------------------------------------------------------------ caller inputs
UserNames == {EmptyStr, <<"A", " ", "B">>}

UserThemes == {EmptyStr, <<"T", NL, NL, "U", NL, "V">>}

UserSections == {<<"@", "chorus">>}

UserLyrics == {<<" ", "x", NL>>}

\* ------------------------------------------------------------------- Model
\* invoke_llm: the chain of str.replace calls applied to response.content
NormalizeTok(t) ==
    CASE t = "U+2018" -> "'"
      [] t = "U+2019" -> "'"
      [] t = "U+201C" -> "'"
      [] t = "U+201D" -> "'"
      [] t = "U+2026-mojibake" -> "..."
      [] OTHER -> t

NormalizeStr(s) == [i \in 1..Len(s) |-> NormalizeTok(s[i])]

NormalizeDict(d) ==
    [i \in 1..Len(d) |-> [k |-> NormalizeStr(d[i].k), v |-> NormalizeStr(d[i].v)]]

\* the list json.loads returns for a JSON array
PyList(items) == [type |-> "list", items |-> items]

\* invoke_llm on a response that the backend returned (it did not raise):
\* json.loads of the normalized content, or the sentinel on JSONDecodeError
invoke_llm(response) ==
    IF ~response.parses THEN ErrorSentinel
    ELSE IF response.json = "object" THEN NormalizeDict(response.obj)
    ELSE PyList([i \in 1..Len(response.obj) |-> NormalizeStr(response.obj[i])])

NoPrompt ==
    [template |-> "", count |-> 0, history |-> EmptyStr,
     song_name |-> EmptyStr, song_theme |-> EmptyStr]

\* variant: the caller's count is dropped and the parameter default (20) is sent
song_names_prompt_default_count(count, history) ==
    [NoPrompt EXCEPT !.template = "song_names", !.count = 20,
        !.history = IF history = EmptyStr THEN DefaultHistory ELSE history]

\* generate_song_names: the parameters formatted into the song_names prompt
song_names_prompt(count, history) ==
    [NoPrompt EXCEPT !.template = "song_names", !.count = count,
        !.history = IF history = EmptyStr THEN DefaultHistory ELSE history]

\* generate_song_theme: the parameters formatted into the song_theme prompt
song_theme_prompt(song_name) ==
    [NoPrompt EXCEPT !.template = "song_theme", !.song_name = song_name]

\* generate_song: the parameters formatted into the full_song prompt
full_song_prompt(song_name, song_theme) ==
    [NoPrompt EXCEPT !.template = "full_song", !.song_name = song_name,
        !.song_theme = song_theme]

\* -------------------------------------------------------------------- Song
\* Song.has_lyrics on a lyrics dict
song_has_lyrics(lyr) == Len(lyr) > 0

\* dict.update(new)
RECURSIVE DictUpdate(_, _)
DictUpdate(d, new) ==
    IF new = <<>> THEN d
    ELSE DictUpdate(DictSet(d, Head(new).k, Head(new).v), Tail(new))

\* variant: the new mapping is merged into the one the song holds
song_set_lyrics_update(lyr, new_lyrics) == DictUpdate(lyr, new_lyrics)

\* Song.set_lyrics: the mapping the song holds afterwards
song_set_lyrics(lyr, new_lyrics) == new_lyrics

\* Song.get_section_lyrics: the stripped text, or KeyError
song_get_section_lyrics(lyr, section_name) ==
    LET section_name_json == Strip(section_name, {"@"})
    IN  IF DictHas(lyr, section_name_json)
        THEN [status |-> "ok", value |-> Strip(DictGet(lyr, section_name_json), Whitespace)]
        ELSE [status |-> "KeyError", value |-> EmptyStr]

\* Song.set_section_lyrics
song_set_section_lyrics(lyr, section_name, text) ==
    DictSet(lyr, Strip(section_name, {"@"}), text)

\* the list the loop of Song.export_lyrics iterates over
ExportSections == <<>>

\* the loop of Song.export_lyrics over the remaining sections
RECURSIVE ExportLoop(_, _, _)
ExportLoop(song_listing, sections, lyr) ==
    IF sections = <<>> THEN [status |-> "ok", value |-> song_listing]
    ELSE LET section_name_yaml == Head(sections)
             section_name_json == Strip(section_name_yaml, {"@"})
         IN  IF ~DictHas(lyr, section_name_json)
             THEN [status |-> "KeyError", value |-> EmptyStr]
             ELSE ExportLoop(
                    Replace(song_listing, section_name_yaml,
                            Strip(DictGet(lyr, section_name_json), Whitespace)),
                    Tail(sections), lyr)

\* Song.export_lyrics
export_lyrics(structure, lyr) == ExportLoop(structure, ExportSections, lyr)

\* Song.save_to_file: the default file name derived from the song name
SongFileName(song_name) == Lower(Replace(song_name, <<" ">>, <<"_">>)) \o <<".json">>

\* variant: the name is written under the key "title"
SongData_title(song_name, song_theme, lyr) ==
    <<[k |-> Str("title"), v |-> song_name], [k |-> Str("theme"), v |-> song_theme],
      [k |-> Str("lyrics"), v |-> lyr]>>

\* Song.save_to_file: the record json.dump writes
SongData(song_name, song_theme, lyr) ==
    <<[k |-> Str("name"), v |-> song_name], [k |-> Str("theme"), v |-> song_theme],
      [k |-> Str("lyrics"), v |-> lyr]>>

\* variant: a record without a name loads as a song called Untitled
song_load_fields_untitled(song_data) ==
    [name |-> DictGetOr(song_data, Str("name"), <<"Untitled">>),
     theme |-> DictGetOr(song_data, Str("theme"), EmptyStr),
     lyrics |-> DictGetOr(song_data, Str("lyrics"), EmptyDict)]

\* Song.load_from_file: the fields assigned from the record json.load returns
song_load_fields(song_data) ==
    [name |-> DictGetOr(song_data, Str("name"), EmptyStr),
     theme |-> DictGetOr(song_data, Str("theme"), EmptyStr),
     lyrics |-> DictGetOr(song_data, Str("lyrics"), EmptyDict)]

\* ----------------------------------------------------------- persisted data
\* the record the application loads at start-up (songs/shine_bright.json)
ShineFile == <<"shine_bright", ".json">>

ShineLyrics == <<Entry("verse1", <<"la">>), Entry("chorus", <<"na">>)>>

\* a record written by an older schema that lacks theme and lyrics
OldFile == <<"old", ".json">>

\* the songs directory when the session starts
InitialFiles ==
    (ShineFile :> SongData(<<"A", " ", "B">>, <<"T", NL, NL, "U", NL, "V">>, ShineLyrics))
        @@ (OldFile :> <<[k |-> Str("name"), v |-> <<"A", " ", "B">>]>>)

LoadFileNames == {EmptyStr, ShineFile, OldFile, SongFileName(<<"A", " ", "B">>)}

\* ------------------------------------------------------------------- state
VARIABLES
    name,               \* Song.name
    theme,              \* Song.theme
    lyrics,             \* Song.lyrics
    song_structure,     \* Song.song_structure
    random_song_names,  \* SongGenerator.random_song_names (deque)
    song_name_history,  \* SongGenerator.song_name_history (list)
    files,              \* the songs directory: file name -> JSON record
    llm_calls,          \* number of llm.invoke calls made so far
    prompt,             \* parameters of the last prompt sent to the backend
    backend_honest,     \* every name batch so far avoided the names of its hint
    result,             \* operation last run, its outcome and return value
    other,              \* the SongGenerator of the session that is not running
    current,            \* the session whose script is running (1 or 2)
    llm                 \* Model.llm: the backend, unscripted or answering one response

vars ==
    <<name, theme, lyrics, song_structure, random_song_names, song_name_history,
      files, llm_calls, prompt, backend_honest, result, other, current, llm>>

\* backend: what the generation backend did during the operation
Outcome(op, status, value, backend) ==
    [op |-> op, status |-> status, value |-> value, backend |-> backend]

\* variant: invoke_llm catches every exception and answers with the sentinel
Raises_never(response) == FALSE

\* invoke_llm: self.llm.invoke(prompt) raises and the exception propagates
Raises(response) == response.kind = "raise"

\* how a call of invoke_llm ended, given the backend's response
BackendOutcome(response) ==
    IF response.kind = "raise" THEN "raised"
    ELSE IF response.parses THEN "parsed" ELSE "unparseable"

\* Model.llm as the chat client built in Model.__init__: what it answers to
\* a prompt is not determined by the program
Unscripted == [kind |-> "any", parses |-> FALSE, json |-> "none", obj |-> EmptyDict]

\* the responses self.llm.invoke may give to one prompt: any of those the
\* chat client can produce, or the one response of a scripted backend
Answers(responses) == IF llm = Unscripted THEN responses ELSE {llm}

\* the SongGenerator a session creates on its first access
NewSongGenerator ==
    [name |-> EmptyStr, theme |-> EmptyStr, lyrics |-> EmptyDict,
     song_structure |-> DefaultStructure, random_song_names |-> <<>>,
     song_name_history |-> <<>>]

\* SongGenerator.__init__ and Song.__init__
Init ==
    /\ name = EmptyStr
    /\ theme = EmptyStr
    /\ lyrics = EmptyDict
    /\ song_structure = DefaultStructure
    /\ random_song_names = <<>>
    /\ song_name_history = <<>>
    /\ files = InitialFiles
    /\ llm_calls = 0
    /\ prompt = NoPrompt
    /\ backend_honest = TRUE
    /\ result = Outcome("__init__", "ok", EmptyStr, "not called")
    /\ other = NewSongGenerator
    /\ current = 1
    /\ llm = Unscripted

\* ---------------------------------------------------- SongGenerator queries
\* variant: the guard accepts a song that has a name or a theme
can_generate_lyrics_either(song_name, song_theme) ==
    Len(song_name) > 0 \/ Len(song_theme) > 0

can_generate_lyrics(song_name, song_theme) == Len(song_name) > 0 /\ Len(song_theme) > 0

has_lyrics == song_has_lyrics(lyrics)

\* variant: only the blank lines are replaced, single line breaks are kept
get_song_theme_blank_lines(song_theme, single_paragraph) ==
    IF single_paragraph THEN Replace(song_theme, <<NL, NL>>, <<" ">>) ELSE song_theme

get_song_theme(song_theme, single_paragraph) ==
    IF single_paragraph
    THEN Replace(Replace(song_theme, <<NL, NL>>, <<" ">>), <<NL>>, <<" ">>)
    ELSE song_theme

\* repr() of a str: single quotes unless the text has one and no double quote
Repr(s) ==
    LET toks == {s[i] : i \in 1..Len(s)}
    IN  IF "'" \in toks /\ "\"" \notin toks THEN <<"\"">> \o s \o <<"\"">>
        ELSE <<"'">> \o Replace(s, <<"'">>, <<"\\'">>) \o <<"'">>

\* the object list.append stores: the dict_values view itself, not its items
PyDictValues(values) == [type |-> "dict_values", items |-> values]

\* str() of a dict_values object
StrOfValues(values) ==
    <<"dict_values([">> \o Join(<<", ">>, [i \in 1..Len(values) |-> Repr(values[i])])
        \o <<"])">>

\* set_random_song_name: ", ".join(map(str, self.song_name_history))
HistoryHint(history) ==
    Join(<<", ">>, [i \in 1..Len(history) |-> StrOfValues(history[i].items)])

\* variant: the history is rebound to a list holding the new batch only
HistoryAfterBatch_reset(history, values) == <<PyDictValues(values)>>

\* set_random_song_name: self.song_name_history.append(song_names.values())
HistoryAfterBatch(history, values) == Append(history, PyDictValues(values))

\* variant: the batch is queued with extendleft, which reverses it
QueueAfterBatch_extendleft(queue, values) ==
    [i \in 1..Len(values) |-> values[Len(values) + 1 - i]] \o queue

\* set_random_song_name: self.random_song_names.extend(song_names.values())
QueueAfterBatch(queue, values) == queue \o values

\* variant: the fields are read with dict.get(key, "") instead of subscripts
ThemeFromJson_get(song_theme_json) ==
    [status |-> "ok",
     value |-> DictGetOr(song_theme_json, ThemeKeys[1], EmptyStr) \o <<NL, NL>>
               \o DictGetOr(song_theme_json, ThemeKeys[2], EmptyStr) \o <<" ">>
               \o DictGetOr(song_theme_json, ThemeKeys[3], EmptyStr) \o <<NL, NL>>
               \o DictGetOr(song_theme_json, ThemeKeys[4], EmptyStr)]

\* set_random_song_theme: the four subscripts and the f-string, or KeyError
ThemeFromJson(song_theme_json) ==
    IF \E i \in 1..Len(ThemeKeys) : ~DictHas(song_theme_json, ThemeKeys[i])
    THEN [status |-> "KeyError", value |-> EmptyStr]
    ELSE [status |-> "ok",
          value |-> DictGet(song_theme_json, ThemeKeys[1]) \o <<NL, NL>>
                    \o DictGet(song_theme_json, ThemeKeys[2]) \o <<" ">>
                    \o DictGet(song_theme_json, ThemeKeys[3]) \o <<NL, NL>>
                    \o DictGet(song_theme_json, ThemeKeys[4])]

\* ---------------------------------------------------- SongGenerator actions
\* a batch honours the hint when none of its names is listed in the hint
HonoursHint(values, hint) ==
    \A i \in 1..Len(values) : ~Contains(hint, values[i])

set_song_name ==
    \E new_name \in UserNames :
        /\ name' = new_name
        /\ result' = Outcome("set_song_name", "ok", EmptyStr, "not called")
        /\ UNCHANGED <<theme, lyrics, song_structure, random_song_names,
                       song_name_history, files, llm_calls, prompt, backend_honest,
                   other, current, llm>>

\* variant: the setter also saves the song, as generate_lyrics does
set_song_theme_write_through ==
    \E new_theme \in UserThemes :
        /\ theme' = new_theme
        /\ files' = (SongFileName(name) :> SongData(name, theme', lyrics)) @@ files
        /\ result' = Outcome("set_song_theme", "ok", EmptyStr, "not called")
        /\ UNCHANGED <<name, lyrics, song_structure, random_song_names,
                       song_name_history, llm_calls, prompt, backend_honest,
                       other, current, llm>>

set_song_theme ==
    \E new_theme \in UserThemes :
        /\ theme' = new_theme
        /\ result' = Outcome("set_song_theme", "ok", EmptyStr, "not called")
        /\ UNCHANGED <<name, lyrics, song_structure, random_song_names,
                       song_name_history, files, llm_calls, prompt, backend_honest,
                   other, current, llm>>

set_random_song_name ==
    /\ (random_song_names = <<>>) => llm_calls < MaxCalls
    /\ \E response \in Answers(NameResponses) :
        LET replenish == random_song_names = <<>>
            hint == HistoryHint(song_name_history)
            raised == replenish /\ Raises(response)
            called == IF replenish THEN BackendOutcome(response) ELSE "not called"
            values == DictValues(invoke_llm(response))
            queue1 == IF replenish THEN QueueAfterBatch(random_song_names, values)
                      ELSE random_song_names
            history1 == IF replenish THEN HistoryAfterBatch(song_name_history, values)
                        ELSE song_name_history
        IN  /\ llm_calls' = IF replenish THEN llm_calls + 1 ELSE llm_calls
            /\ prompt' = IF replenish THEN song_names_prompt(BatchSize, hint) ELSE prompt
            /\ backend_honest' =
                 IF replenish /\ response.parses
                 THEN backend_honest /\ HonoursHint(DictValues(response.obj), prompt'.history)
                 ELSE backend_honest
            /\ IF raised
               THEN /\ result' = Outcome("set_random_song_name", "BackendError", EmptyStr, called)
                    /\ UNCHANGED <<name, random_song_names, song_name_history>>
               ELSE IF queue1 = <<>>
               THEN /\ result' = Outcome("set_random_song_name", "IndexError", EmptyStr, called)
                    /\ random_song_names' = queue1
                    /\ song_name_history' = history1
                    /\ UNCHANGED name
               ELSE /\ result' = Outcome("set_random_song_name", "ok", Head(queue1), called)
                    /\ random_song_names' = Tail(queue1)
                    /\ song_name_history' = history1
                    /\ name' = Head(queue1)
            /\ UNCHANGED <<theme, lyrics, song_structure, files, other, current, llm>>

set_random_song_theme ==
    /\ llm_calls < MaxCalls
    /\ \E response \in Answers(ThemeResponses) :
        LET parsed == ThemeFromJson(invoke_llm(response))
        IN  /\ llm_calls' = llm_calls + 1
            /\ prompt' = song_theme_prompt(name)
            /\ IF Raises(response)
               THEN /\ result' = Outcome("set_random_song_theme", "BackendError", EmptyStr,
                                       BackendOutcome(response))
                    /\ UNCHANGED theme
               ELSE IF parsed.status # "ok"
               THEN /\ result' = Outcome("set_random_song_theme", parsed.status, EmptyStr,
                                       BackendOutcome(response))
                    /\ UNCHANGED theme
               ELSE /\ result' = Outcome("set_random_song_theme", "ok", parsed.value,
                                       BackendOutcome(response))
                    /\ theme' = parsed.value
            /\ UNCHANGED <<name, lyrics, song_structure, random_song_names,
                           song_name_history, files, backend_honest,
                   other, current, llm>>

clear_song_theme ==
    /\ theme' = EmptyStr
    /\ result' = Outcome("clear_song_theme", "ok", EmptyStr, "not called")
    /\ UNCHANGED <<name, lyrics, song_structure, random_song_names,
                   song_name_history, files, llm_calls, prompt, backend_honest,
                   other, current, llm>>

\* variant: every section of the structure is reset to an empty text
clear_lyrics_blank_sections ==
    /\ lyrics' = <<Entry("verse1", EmptyStr), Entry("chorus", EmptyStr)>>
    /\ result' = Outcome("clear_lyrics", "ok", EmptyStr, "not called")
    /\ UNCHANGED <<name, theme, song_structure, random_song_names,
                   song_name_history, files, llm_calls, prompt, backend_honest,
                   other, current, llm>>

clear_lyrics ==
    /\ lyrics' = song_set_lyrics(lyrics, EmptyDict)
    /\ result' = Outcome("clear_lyrics", "ok", EmptyStr, "not called")
    /\ UNCHANGED <<name, theme, song_structure, random_song_names,
                   song_name_history, files, llm_calls, prompt, backend_honest,
                   other, current, llm>>

generate_lyrics ==
    /\ can_generate_lyrics(name, theme) => llm_calls < MaxCalls
    /\ \E response \in Answers(LyricsResponses) :
        IF ~can_generate_lyrics(name, theme)
        THEN /\ result' = Outcome("generate_lyrics", "ok", EmptyStr, "not called")
             /\ UNCHANGED <<name, theme, lyrics, song_structure, random_song_names,
                            song_name_history, files, llm_calls, prompt, backend_honest,
                   other, current, llm>>
        ELSE /\ llm_calls' = llm_calls + 1
             /\ prompt' = full_song_prompt(name, get_song_theme(theme, TRUE))
             /\ IF Raises(response)
                THEN /\ result' = Outcome("generate_lyrics", "BackendError", EmptyStr, "raised")
                     /\ UNCHANGED <<lyrics, files>>
                ELSE /\ result' = Outcome("generate_lyrics", "ok", EmptyStr, BackendOutcome(response))
                     /\ lyrics' = song_set_lyrics(lyrics, invoke_llm(response))
                     /\ files' = (SongFileName(name) :> SongData(name, theme, lyrics'))
                                    @@ files
             /\ UNCHANGED <<name, theme, song_structure, random_song_names,
                            song_name_history, backend_honest,
                   other, current, llm>>

\* variant: the text is also substituted for the placeholder in the structure
set_section_lyrics_into_structure ==
    \E section_name \in UserSections, text \in UserLyrics :
        /\ lyrics' = song_set_section_lyrics(lyrics, section_name, text)
        /\ song_structure' = Replace(song_structure, section_name, text)
        /\ result' = Outcome("set_section_lyrics", "ok", EmptyStr, "not called")
        /\ UNCHANGED <<name, theme, random_song_names,
                       song_name_history, files, llm_calls, prompt, backend_honest,
                       other, current, llm>>

set_section_lyrics ==
    \E section_name \in UserSections, text \in UserLyrics :
        /\ lyrics' = song_set_section_lyrics(lyrics, section_name, text)
        /\ result' = Outcome("set_section_lyrics", "ok", EmptyStr, "not called")
        /\ UNCHANGED <<name, theme, song_structure, random_song_names,
                       song_name_history, files, llm_calls, prompt, backend_honest,
                   other, current, llm>>

debug_load_from_file ==
    \E filename \in LoadFileNames :
        /\ IF Len(filename) = 0
           THEN /\ result' = Outcome("debug_load_from_file", "ok", EmptyStr, "not called")
                /\ UNCHANGED <<name, theme, lyrics>>
           ELSE IF filename \notin DOMAIN files
           THEN /\ result' = Outcome("debug_load_from_file", "FileNotFoundError", EmptyStr, "not called")
                /\ UNCHANGED <<name, theme, lyrics>>
           ELSE /\ result' = Outcome("debug_load_from_file", "ok", EmptyStr, "not called")
                /\ name' = song_load_fields(files[filename]).name
                /\ theme' = song_load_fields(files[filename]).theme
                /\ lyrics' = song_load_fields(files[filename]).lyrics
        /\ UNCHANGED <<song_structure, random_song_names, song_name_history,
                       files, llm_calls, prompt, backend_honest,
                   other, current, llm>>

\* SongGenerator.export_lyrics: the listing, or the error, Song.export_lyrics gives
export_lyrics_call ==
    /\ result' = Outcome("export_lyrics", export_lyrics(song_structure, lyrics).status,
                         export_lyrics(song_structure, lyrics).value, "not called")
    /\ UNCHANGED <<name, theme, lyrics, song_structure, random_song_names,
                   song_name_history, files, llm_calls, prompt, backend_honest,
                   other, current, llm>>

Next ==
    \/ set_song_name
    \/ set_song_theme
    \/ set_random_song_name
    \/ set_random_song_theme
    \/ clear_song_theme
    \/ clear_lyrics
    \/ generate_lyrics
    \/ set_section_lyrics
    \/ export_lyrics_call
    \/ debug_load_from_file

Spec == Init /\ [][Next]_vars

\* ------------------------------------------------------------ two sessions
\* the server turns to the other session: its script runs on the
\* SongGenerator kept in that session's st.session_state
switch_session ==
    /\ current' = 3 - current
    /\ name' = other.name
    /\ theme' = other.theme
    /\ lyrics' = other.lyrics
    /\ song_structure' = other.song_structure
    /\ random_song_names' = other.random_song_names
    /\ song_name_history' = other.song_name_history
    /\ other' = [name |-> name, theme |-> theme, lyrics |-> lyrics,
                 song_structure |-> song_structure,
                 random_song_names |-> random_song_names,
                 song_name_history |-> song_name_history]
    /\ UNCHANGED <<files, llm_calls, prompt, backend_honest, result, llm>>

\* two sessions naming, describing and generating songs in any interleaving
NextSessions ==
    \/ set_song_name
    \/ set_song_theme
    \/ clear_lyrics
    \/ generate_lyrics
    \/ set_section_lyrics
    \/ switch_session

SpecSessions == Init /\ [][NextSessions]_vars

\* ------------------------------------------------------ Model.invoke_llm
\* members of the JSON objects a scripted backend answers with
InvokeKeys == {Str("error"), Str("song1"), Str("chorus")}

InvokeValues == {ErrorText, <<"A">>, <<"it", "U+2019", "s">>}

InvokeEntries == {[k |-> key, v |-> value] : key \in InvokeKeys, value \in InvokeValues}

\* JSON objects of at most two members with distinct keys
InvokeObjects ==
    {EmptyDict} \cup {<<e>> : e \in InvokeEntries}
        \cup {pair \in InvokeEntries \X InvokeEntries : pair[1].k # pair[2].k}

\* what self.llm.invoke may do: raise, or answer a text that is not JSON,
\* a JSON array, or a JSON object
InvokeResponses ==
    {RaiseResponse, GarbageResponse, JsonArrayResponse(<<>>),
     JsonArrayResponse(<<<<"A">>, <<"it", "U+2019", "s">>>>)}
        \cup {JsonResponse(obj) : obj \in InvokeObjects}

\* the prompts the three generate_* functions hand to invoke_llm
InvokePrompts ==
    {song_names_prompt(BatchSize, EmptyStr), song_theme_prompt(<<"A", " ", "B">>),
     full_song_prompt(<<"A", " ", "B">>, <<"T", " ", "U", " ", "V">>)}

\* a Model whose backend answers every prompt with one response
InitInvoke ==
    /\ name = EmptyStr
    /\ theme = EmptyStr
    /\ lyrics = EmptyDict
    /\ song_structure = DefaultStructure
    /\ random_song_names = <<>>
    /\ song_name_history = <<>>
    /\ files = InitialFiles
    /\ llm_calls = 0
    /\ prompt = NoPrompt
    /\ backend_honest = TRUE
    /\ result = Outcome("__init__", "ok", EmptyStr, "not called")
    /\ other = NewSongGenerator
    /\ current = 1
    /\ llm \in InvokeResponses

\* Model.invoke_llm(prompt) on the scripted backend
invoke_llm_call ==
    /\ llm_calls < MaxCalls
    /\ \E sent \in InvokePrompts :
        /\ prompt' = sent
        /\ llm_calls' = llm_calls + 1
        /\ result' = IF Raises(llm)
                     THEN Outcome("invoke_llm", "BackendError", EmptyStr, "raised")
                     ELSE Outcome("invoke_llm", "ok", invoke_llm(llm), BackendOutcome(llm))
        /\ UNCHANGED <<name, theme, lyrics, song_structure, random_song_names,
                       song_name_history, files, backend_honest, other, current, llm>>

NextInvoke == invoke_llm_call

SpecInvoke == InitInvoke /\ [][NextInvoke]_vars

\* --------------------------------------------------- Song.load_from_file
\* a member of a stored record: absent, or present with one of the values
Absent == <<>>

Member(key, values) == {Absent} \cup {<<[k |-> Str(key), v |-> value]>> : value \in values}

\* records json.load may return: each of the three keys present or missing
LoadRecords ==
    {n \o t \o l :
        n \in Member("name", {EmptyStr, <<"A", " ", "B">>, <<"C">>}),
        t \in Member("theme", {EmptyStr, <<"T", NL, NL, "U", NL, "V">>, <<"W">>}),
        l \in Member("lyrics", {EmptyDict, ShineLyrics, LyricsPartial})}

\* a song held in memory and a songs directory with one stored record
InitLoad ==
    /\ name = <<"D">>
    /\ theme = <<"X">>
    /\ lyrics = <<Entry("verse1", <<"old">>)>>
    /\ song_structure = DefaultStructure
    /\ random_song_names = <<>>
    /\ song_name_history = <<>>
    /\ \E song_data \in LoadRecords : files = (OldFile :> song_data)
    /\ llm_calls = 0
    /\ prompt = NoPrompt
    /\ backend_honest = TRUE
    /\ result = Outcome("__init__", "ok", EmptyStr, "not called")
    /\ other = NewSongGenerator
    /\ current = 1
    /\ llm = Unscripted

NextLoad == debug_load_from_file

SpecLoad == InitLoad /\ [][NextLoad]_vars

\* ------------------------------------------------------------ song themes
\* the fields of ThemeFull in another member order, with an extra member
ThemeReordered ==
    <<Entry("mood", <<"mood">>), Entry("title", <<"A">>), Entry("narrative2", <<"two">>),
      Entry("narrative1", <<"U+201C", "one", "U+201D">>), Entry("description", <<"desc">>)>>

\* fields that hold line breaks of their own
ThemeMultiline ==
    <<Entry("description", <<"de", NL, "sc">>), Entry("narrative1", <<"one">>),
      Entry("narrative2", <<"two", NL, NL, "three">>), Entry("mood", EmptyStr)>>

\* the one response a scripted backend gives to the song_theme prompt
ThemeScripts ==
    ThemeResponses \cup {JsonResponse(ThemeReordered), JsonResponse(ThemeMultiline)}

\* a song with any name and theme, and a scripted backend
InitTheme ==
    /\ name \in UserNames
    /\ theme \in UserThemes
    /\ lyrics = EmptyDict
    /\ song_structure = DefaultStructure
    /\ random_song_names = <<>>
    /\ song_name_history = <<>>
    /\ files = InitialFiles
    /\ llm_calls = 0
    /\ prompt = NoPrompt
    /\ backend_honest = TRUE
    /\ result = Outcome("__init__", "ok", EmptyStr, "not called")
    /\ other = NewSongGenerator
    /\ current = 1
    /\ llm \in ThemeScripts

\* SongGenerator.get_song_theme called as an operation of its own
get_song_theme_call ==
    \E single_paragraph \in BOOLEAN :
        /\ result' = Outcome(IF single_paragraph THEN "get_song_theme(single_paragraph=True)"
                             ELSE "get_song_theme(single_paragraph=False)",
                             "ok", get_song_theme(theme, single_paragraph), "not called")
        /\ UNCHANGED <<name, theme, lyrics, song_structure, random_song_names,
                       song_name_history, files, llm_calls, prompt, backend_honest,
                       other, current, llm>>

NextTheme ==
    \/ set_random_song_theme
    \/ get_song_theme_call

SpecTheme == InitTheme /\ [][NextTheme]_vars

\* ================================================================== claims
\* lyrics has an entry for every placeholder of the structure
CoversStructure(structure, lyr) ==
    \A key \in Placeholders(structure) : DictHas(lyr, key)

\* the names held by the batches of a history
BatchNames(history) ==
    UNION {{history[i].items[j] : j \in 1..Len(history[i].items)} : i \in 1..Len(history)}

\* C1: a name-changing operation (set_song_name, set_random_song_name) that
\* changes song.name leaves song.theme empty, and one that sets the current
\* name again leaves song.theme unchanged.
C1_NameChangeClearsTheme ==
    [][result'.op \in {"set_song_name", "set_random_song_name"} =>
         IF name' # name THEN theme' = EmptyStr ELSE theme' = theme]_vars

\* C2: can_generate_lyrics() is true exactly when name and theme are both
\* non-empty, and when it is false generate_lyrics() calls no backend and
\* leaves name, theme, lyrics, the queue, the history and the files unchanged.
C2_GenerateGuard ==
    /\ [](can_generate_lyrics(name, theme) <=> (name # EmptyStr /\ theme # EmptyStr))
    /\ [][(result'.op = "generate_lyrics" /\ (name = EmptyStr \/ theme = EmptyStr)) =>
            /\ result'.backend = "not called"
            /\ UNCHANGED <<name, theme, lyrics, random_song_names, song_name_history,
                           files, llm_calls, prompt>>]_vars

\* generate_lyrics ran on a song with a name and no theme
C2_Witness ==
    /\ result.op = "generate_lyrics"
    /\ name # EmptyStr
    /\ theme = EmptyStr
    /\ ~can_generate_lyrics(name, theme)

\* the text export() is specified to return: one pass over the structure in
\* which each placeholder token gives way to the trimmed lyric of its section
RECURSIVE Substituted(_, _)
Substituted(structure, lyr) ==
    IF structure = <<>> THEN <<>>
    ELSE IF /\ Len(structure) >= 4
            /\ structure[1] = "[" /\ structure[2] = "@" /\ structure[4] = "]"
         THEN Strip(DictGet(lyr, Str(structure[3])), Whitespace)
                \o Substituted(SubSeq(structure, 5, Len(structure)), lyr)
         ELSE <<Head(structure)>> \o Substituted(Tail(structure), lyr)

\* C3: when lyrics has an entry for every placeholder of the structure,
\* export() returns a text without any placeholder token, in which each
\* placeholder is replaced by the trimmed lyric of its section and the
\* literal labels are unchanged and in their original order.
C3_ExportSubstitutes ==
    CoversStructure(song_structure, lyrics) =>
        LET out == export_lyrics(song_structure, lyrics)
        IN  /\ out.status = "ok"
            /\ Placeholders(out.value) = {}
            /\ out.value = Substituted(song_structure, lyrics)

\* C4: song.lyrics is empty or has an entry for every placeholder of the
\* structure, in every state the public operations can reach.
C4_LyricsEmptyOrComplete ==
    lyrics = EmptyDict \/ CoversStructure(song_structure, lyrics)

\* C5: a name that set_random_song_name returned and assigned to song.name
\* is an entry of name_history.
C5_PoppedNameInHistory ==
    (result.op = "set_random_song_name" /\ result.status = "ok") =>
        \E i \in 1..Len(song_name_history) :
            /\ song_name_history[i].type = "str"
            /\ song_name_history[i].items = result.value

\* C6: while every batch of the backend avoided the names listed in its
\* hint, set_random_song_name returns no name of an earlier batch.
C6_NoRepeatWhenHintHonoured ==
    (result.op = "set_random_song_name" /\ result.status = "ok" /\ backend_honest) =>
        result.value \notin
            BatchNames(SubSeq(song_name_history, 1, Len(song_name_history) - 1))

\* the step is a call of set_random_song_name that found the queue empty
ReplenishStep ==
    /\ result'.op = "set_random_song_name"
    /\ random_song_names = <<>>

\* the last batch recorded in a history
LastBatch(history) == history[Len(history)].items

\* C7 (as stated): a call of set_random_song_name on an empty queue makes
\* exactly one backend call, for a batch of 5, and when it returns the queue
\* holds 4 names.
C7_QueueHoldsFour ==
    [][(ReplenishStep /\ result'.status = "ok") =>
         /\ llm_calls' = llm_calls + 1
         /\ prompt'.template = "song_names" /\ prompt'.count = BatchSize
         /\ Len(random_song_names') = BatchSize - 1]_vars

\* C7 (amended): a call of set_random_song_name on an empty queue makes
\* exactly one backend call, requesting a batch of 5; when it returns a name
\* the queue holds one name fewer than the structured result has values,
\* which is 4 when the result has the 5 values requested.
C7_QueueHoldsBatchMinusOne ==
    [][ReplenishStep =>
         /\ llm_calls' = llm_calls + 1
         /\ prompt'.template = "song_names" /\ prompt'.count = BatchSize
         /\ result'.status = "ok" =>
              /\ Len(random_song_names') = Len(LastBatch(song_name_history')) - 1
              /\ Len(LastBatch(song_name_history')) = BatchSize =>
                    Len(random_song_names') = BatchSize - 1]_vars

\* a replenishing call has returned the first name of a batch of 5
C7_Witness ==
    /\ result.op = "set_random_song_name"
    /\ result.status = "ok"
    /\ result.backend = "parsed"
    /\ llm_calls = 1
    /\ prompt.count = BatchSize
    /\ Len(LastBatch(song_name_history)) = BatchSize
    /\ Len(random_song_names) = BatchSize - 1

\* C8: when the theme response fails to parse, set_random_song_theme
\* reports a failure and leaves song.theme as it was (it does not store a
\* theme built from the sentinel).
C8_ThemeParseFailureReported ==
    [][(result'.op = "set_random_song_theme" /\ result'.backend = "unparseable") =>
         /\ result'.status # "ok"
         /\ theme' = theme]_vars

\* set_random_song_theme met an unparseable response on a song with a theme
C8_Witness ==
    /\ result.op = "set_random_song_theme"
    /\ result.backend = "unparseable"
    /\ result.status = "KeyError"
    /\ theme # EmptyStr

\* C9: when the lyrics response fails to parse, generate_lyrics leaves
\* song.lyrics and the persisted records as they were and has_lyrics() does
\* not become true.
C9_LyricsParseFailureKeepsState ==
    [][(result'.op = "generate_lyrics" /\ result'.backend = "unparseable") =>
         /\ lyrics' = lyrics
         /\ files' = files
         /\ song_has_lyrics(lyrics') => song_has_lyrics(lyrics)]_vars

\* C10: when the names response fails to parse, set_random_song_name
\* surfaces a failure, and the sentinel's error text is not enqueued, not
\* recorded in the history and not assigned to song.name.
C10_NamesParseFailureSurfaced ==
    [][(result'.op = "set_random_song_name" /\ result'.backend = "unparseable") =>
         /\ result'.status # "ok"
         /\ \A i \in 1..Len(random_song_names') : random_song_names'[i] # ErrorText
         /\ ErrorText \notin BatchNames(song_name_history')
         /\ name' # ErrorText]_vars

\* C11: whenever has_lyrics() is true, song.name and song.theme are both
\* non-empty (lyrics cannot exist without a theme).
C11_LyricsImplyNameAndTheme ==
    song_has_lyrics(lyrics) => (name # EmptyStr /\ theme # EmptyStr)

\* C12 (as stated): has_lyrics() changes from false to true only in a step
\* that is generate_lyrics.
C12_OnlyGenerateReachesLyricsReady ==
    [][(~song_has_lyrics(lyrics) /\ song_has_lyrics(lyrics')) =>
         result'.op = "generate_lyrics"]_vars

\* C12 (amended): has_lyrics() changes from false to true only in a step
\* that is generate_lyrics, set_section_lyrics or the load entry point.
C12_LyricsReadyEntryPoints ==
    [][(~song_has_lyrics(lyrics) /\ song_has_lyrics(lyrics')) =>
         result'.op \in {"generate_lyrics", "set_section_lyrics", "debug_load_from_file"}]_vars

\* generate_lyrics has stored the lyrics of a parsed response
C12_Witness ==
    /\ result.op = "generate_lyrics"
    /\ result.backend = "parsed"
    /\ song_has_lyrics(lyrics)

\* C13: after a successful generate_lyrics(), song.lyrics is exactly the
\* mapping the backend's response parsed to (nothing of the previous mapping
\* survives) and the persisted record of the song equals the in-memory
\* name, theme and lyrics.
C13_GenerateReplacesAndPersists ==
    [][(result'.op = "generate_lyrics" /\ result'.backend = "parsed") =>
         /\ \E response \in LyricsResponses :
               response.parses /\ lyrics' = invoke_llm(response)
         /\ SongFileName(name') \in DOMAIN files'
         /\ files'[SongFileName(name')] = SongData(name', theme', lyrics')]_vars

\* generate_lyrics has stored and saved the one-section mapping of a response
C13_Witness ==
    /\ result.op = "generate_lyrics"
    /\ result.backend = "parsed"
    /\ lyrics = invoke_llm(JsonResponse(LyricsPartial))
    /\ files[SongFileName(name)] = SongData(name, theme, lyrics)

\* C14: saving a song and loading the saved record into a fresh Song gives
\* back the same name, theme and lyrics; a record that save wrote is the one
\* save writes again for the song loaded from it.
C14_SaveLoadRoundTrip ==
    /\ LET loaded == song_load_fields(SongData(name, theme, lyrics))
       IN  loaded.name = name /\ loaded.theme = theme /\ loaded.lyrics = lyrics
    /\ \A f \in DOMAIN files \ DOMAIN InitialFiles :
          LET loaded == song_load_fields(files[f])
          IN  files[f] = SongData(loaded.name, loaded.theme, loaded.lyrics)

\* the record generate_lyrics saved has been loaded back
C14_Witness ==
    /\ result.op = "debug_load_from_file"
    /\ result.status = "ok"
    /\ lyrics = invoke_llm(JsonResponse(LyricsFull))
    /\ name # EmptyStr
    /\ theme # EmptyStr
    /\ SongFileName(name) \in DOMAIN files
    /\ files[SongFileName(name)] = SongData(name, theme, lyrics)

\* a is a prefix of b
IsPrefix(a, b) == Len(a) <= Len(b) /\ SubSeq(b, 1, Len(a)) = a

\* C15: name_history never shrinks: in every step the history before the
\* operation is a prefix of the history after it.
C15_HistoryOnlyGrows ==
    [][IsPrefix(song_name_history, song_name_history')]_vars

\* a second batch has been appended to the history
C15_Witness ==
    /\ result.op = "set_random_song_name"
    /\ Len(song_name_history) = 2
    /\ song_name_history[1] # song_name_history[2]

\* C16: when the backend itself fails during set_random_song_name,
\* set_random_song_theme or generate_lyrics, the failure reaches the caller
\* after a single call and name, theme, lyrics, the queue, the history and
\* the persisted records are as before the operation.
C16_BackendFailureNoProgress ==
    [][result'.backend = "raised" =>
         /\ result'.op \in {"set_random_song_name", "set_random_song_theme", "generate_lyrics"}
         /\ result'.status = "BackendError"
         /\ llm_calls' = llm_calls + 1
         /\ UNCHANGED <<name, theme, lyrics, random_song_names, song_name_history,
                        files>>]_vars

\* the backend failed during generate_lyrics on a song that had lyrics
C16_Witness ==
    /\ result.op = "generate_lyrics"
    /\ result.backend = "raised"
    /\ result.status = "BackendError"
    /\ song_has_lyrics(lyrics)

\* C17: export() fails with a missing-section error whenever song.lyrics
\* lacks an entry for some placeholder of the structure (an empty lyrics
\* mapping included).
C17_ExportFailsOnMissingSection ==
    ~CoversStructure(song_structure, lyrics) =>
        export_lyrics(song_structure, lyrics).status = "KeyError"

\* the song record the waiting session last saved is still on disk
OtherRecordSaved ==
    /\ song_has_lyrics(other.lyrics)
    /\ SongFileName(other.name) \in DOMAIN files
    /\ files[SongFileName(other.name)] = SongData(other.name, other.theme, other.lyrics)

\* C18: for two sessions, each owning its own SongGenerator, an operation
\* of the running session leaves the waiting session's song, queue and
\* history unchanged, and leaves its persisted song record unchanged.
C18_SessionsShareNoState ==
    [][current' = current =>
         /\ other' = other
         /\ OtherRecordSaved =>
              /\ SongFileName(other.name) \in DOMAIN files'
              /\ files'[SongFileName(other.name)] = files[SongFileName(other.name)]]_vars

\* a is a suffix of b
IsSuffix(a, b) == Len(a) <= Len(b) /\ SubSeq(b, Len(b) - Len(a) + 1, Len(b)) = a

\* C19: the queue is consumed first-in first-out and refilled only when
\* empty: with names queued, set_random_song_name calls no backend and
\* returns and assigns the oldest one; a refill makes one backend call and
\* returns the first value of the structured result, and what stays queued
\* is always the rest of that batch in the order of the result's fields.
C19_FifoReplenishOnEmpty ==
    /\ [](IF song_name_history = <<>> THEN random_song_names = <<>>
          ELSE IsSuffix(random_song_names, LastBatch(song_name_history)))
    /\ [][result'.op = "set_random_song_name" =>
            IF random_song_names # <<>>
            THEN /\ result'.backend = "not called"
                 /\ llm_calls' = llm_calls
                 /\ result'.status = "ok"
                 /\ result'.value = Head(random_song_names)
                 /\ name' = Head(random_song_names)
                 /\ random_song_names' = Tail(random_song_names)
                 /\ song_name_history' = song_name_history
            ELSE /\ llm_calls' = llm_calls + 1
                 /\ result'.status = "ok" =>
                      /\ result'.value = LastBatch(song_name_history')[1]
                      /\ name' = result'.value
                      /\ random_song_names' = Tail(LastBatch(song_name_history'))]_vars

\* the third name of a batch of 5 has been returned after one backend call
C19_Witness ==
    /\ result.op = "set_random_song_name"
    /\ result.backend = "not called"
    /\ llm_calls = 1
    /\ Len(LastBatch(song_name_history)) = BatchSize
    /\ result.value = LastBatch(song_name_history)[3]
    /\ random_song_names = SubSeq(LastBatch(song_name_history), 4, BatchSize)

\* C20: when song.name is empty, set_random_song_theme neither produces nor
\* stores a theme: song.theme is unchanged.
C20_ThemeRequiresName ==
    [][(result'.op = "set_random_song_theme" /\ name = EmptyStr) =>
         /\ result'.value = EmptyStr
         /\ theme' = theme]_vars

\* the Python type of the value invoke_llm returns for a response text
ReturnType(response) ==
    IF response.parses /\ response.json = "array" THEN "list" ELSE "dict"

\* set_random_song_name queues the values of the result and returns a name
AcceptedAsNames(parsed) == DictValues(parsed) # <<>>

\* set_random_song_theme finds its four fields in the result
AcceptedAsTheme(parsed) == ThemeFromJson(parsed).status = "ok"

\* generate_lyrics stores the result as the lyrics mapping
AcceptedAsLyrics(parsed) == song_set_lyrics(EmptyDict, parsed) = parsed

\* C21: on a response text that is not a parseable JSON object invoke_llm
\* does not raise and returns an object whose only field is error, and no
\* successfully parsed result that a caller accepts (as a name batch, as
\* theme fields or as a lyrics mapping) equals that sentinel.
C21_ParseFailureSentinel ==
    (result.op = "invoke_llm" /\ llm.kind = "text") =>
        IF llm.parses /\ llm.json = "object"
        THEN (AcceptedAsNames(result.value) \/ AcceptedAsTheme(result.value)
                \/ AcceptedAsLyrics(result.value)) => result.value # ErrorSentinel
        ELSE /\ result.status = "ok"
             /\ ReturnType(llm) = "dict"
             /\ DictKeys(result.value) = {Str("error")}

\* the fields a load of song_data is specified to leave in the song
LoadedOrDefault(song_data) ==
    [name |-> IF DictHas(song_data, Str("name")) THEN DictGet(song_data, Str("name"))
              ELSE EmptyStr,
     theme |-> IF DictHas(song_data, Str("theme")) THEN DictGet(song_data, Str("theme"))
               ELSE EmptyStr,
     lyrics |-> IF DictHas(song_data, Str("lyrics")) THEN DictGet(song_data, Str("lyrics"))
                ELSE EmptyDict]

\* C22: a load of a record missing any of the keys name, theme, lyrics
\* succeeds; each field whose key is missing becomes its empty default and
\* each field whose key is present is taken from the record. (A load reads
\* no record only when no file name is given or the file does not exist.)
C22_LoadDefaultsMissingKeys ==
    [][result'.op = "debug_load_from_file" =>
         \/ /\ result'.status \in {"ok", "FileNotFoundError"}
            /\ UNCHANGED <<name, theme, lyrics>>
         \/ /\ result'.status = "ok"
            /\ \E filename \in DOMAIN files :
                 [name |-> name', theme |-> theme', lyrics |-> lyrics']
                     = LoadedOrDefault(files[filename])]_vars

\* a record holding only a theme was loaded over the song in memory
C22_Witness ==
    /\ result.op = "debug_load_from_file"
    /\ result.status = "ok"
    /\ DictKeys(files[OldFile]) = {Str("theme")}
    /\ name = EmptyStr
    /\ theme = <<"W">>
    /\ lyrics = EmptyDict

\* the four fields of a structured theme result, in the order of the claim
ThemeFields(song_theme_json) ==
    [i \in 1..Len(ThemeKeys) |-> DictGet(song_theme_json, ThemeKeys[i])]

\* a text with every blank line, and every line break left, turned into a space
RECURSIVE Flattened(_)
Flattened(text) ==
    IF text = <<>> THEN <<>>
    ELSE IF Len(text) >= 2 /\ text[1] = NL /\ text[2] = NL
         THEN <<" ">> \o Flattened(SubSeq(text, 3, Len(text)))
    ELSE IF text[1] = NL THEN <<" ">> \o Flattened(Tail(text))
    ELSE <<text[1]>> \o Flattened(Tail(text))

\* C23 (as stated): the theme stored by a successful set_random_song_theme
\* is description, narrative1, narrative2, mood with a blank line between
\* each adjacent pair; get_song_theme(single_paragraph=True) returns the
\* stored text with its blank lines collapsed and leaves the theme unchanged.
C23_ThemeFourParagraphs ==
    [][/\ (result'.op = "set_random_song_theme" /\ result'.status = "ok") =>
           /\ theme' = Join(<<NL, NL>>, ThemeFields(invoke_llm(llm)))
           /\ result'.value = theme'
       /\ result'.op = "get_song_theme(single_paragraph=True)" =>
           /\ result'.value = Replace(theme, <<NL, NL>>, <<" ">>)
           /\ theme' = theme]_vars

\* C23 (amended): the theme stored by a successful set_random_song_theme is
\* three paragraphs separated by blank lines: description, then narrative1
\* and narrative2 joined by one space, then mood;
\* get_song_theme(single_paragraph=True) returns the stored text with every
\* blank line and every remaining line break replaced by one space, and
\* leaves the theme unchanged.
C23_ThemeThreeParagraphs ==
    [][/\ (result'.op = "set_random_song_theme" /\ result'.status = "ok") =>
           LET fields == ThemeFields(invoke_llm(llm))
           IN  /\ theme' = Join(<<NL, NL>>,
                               <<fields[1], fields[2] \o <<" ">> \o fields[3], fields[4]>>)
               /\ result'.value = theme'
       /\ result'.op = "get_song_theme(single_paragraph=True)" =>
           /\ result'.value = Flattened(theme)
           /\ theme' = theme]_vars

\* a theme generated from fields with line breaks was read as one paragraph
C23_Witness ==
    /\ llm = JsonResponse(ThemeMultiline)
    /\ result.op = "get_song_theme(single_paragraph=True)"
    /\ theme = <<"de", NL, "sc", NL, NL, "one", " ", "two", NL, NL, "three", NL, NL>>
    /\ result.value = <<"de", " ", "sc", " ", "one", " ", "two", " ", "three", " ">>

\* C24: the structure of the song is immutable: no operation of Song or
\* SongGenerator (setters, generation operations, set_section_lyrics,
\* export, save, load) changes the structure string it was created with.
C24_StructureImmutable ==
    /\ [][song_structure' = song_structure]_vars
    /\ [](song_structure = DefaultStructure)

\* a generated and saved song had a section edited and was then exported
C24_Witness ==
    /\ result.op = "export_lyrics"
    /\ llm_calls > 0
    /\ SongFileName(name) \in DOMAIN files
    /\ lyrics # EmptyDict
    /\ lyrics # files[SongFileName(name)][3].v
    /\ DictGet(lyrics, Str("chorus")) = <<" ", "x", NL>>
    /\ song_structure = PopSong

\* C25: between operations the queue is a suffix of the most recently
\* fetched batch (empty before the first fetch), it holds at most batch
\* size minus one names, and every name in it is an entry of name_history.
C25_QueueWithinLastBatch ==
    /\ IF song_name_history = <<>> THEN random_song_names = <<>>
       ELSE IsSuffix(random_song_names, LastBatch(song_name_history))
    /\ Len(random_song_names) <= BatchSize - 1
    /\ \A i \in 1..Len(random_song_names) :
         \E j \in 1..Len(song_name_history) :
            /\ song_name_history[j].type = "str"
            /\ song_name_history[j].items = random_song_names[i]

\* C26: the songs directory is written only by generate_lyrics: every
\* other operation leaves every persisted record unchanged, so an edit made
\* in memory after a generation is not in the persisted record.
C26_OnlyGenerateWritesFiles ==
    [][/\ files' # files => result'.op = "generate_lyrics"
       /\ result'.op \in {"set_song_name", "set_song_theme", "clear_song_theme",
                          "clear_lyrics", "set_section_lyrics", "set_random_song_name",
                          "set_random_song_theme"} => files' = files]_vars

\* a section of a generated and saved song was edited: the record on disk
\* still holds the generated text
C26_Witness ==
    /\ result.op = "set_section_lyrics"
    /\ llm_calls > 0
    /\ SongFileName(name) \in DOMAIN files
    /\ files[SongFileName(name)][3].v = invoke_llm(JsonResponse(LyricsFull))
    /\ DictGet(lyrics, Str("chorus")) = <<" ", "x", NL>>
    /\ DictGet(files[SongFileName(name)][3].v, Str("chorus")) = <<"it", "'", "s", NL>>

=============================================================================
